---- MODULE Spec2Model ----
(***************************************************************************)
(* cpu-affinity-hook.py: a Proxmox hook script that, before a VM starts    *)
(* and after it stops, writes a CPU governor to the scaling_governor       *)
(* pseudo-file of every core named by the VM's affinity string.            *)
(*                                                                         *)
(* Strings are sequences of one-character strings, so that split(),        *)
(* isnumeric() and int() are modelled by what they do.  The cluster API    *)
(* and the sysfs files are the environment: a node listing, a per-VM       *)
(* configuration and live status, and one governor file per core.          *)
(***************************************************************************)
EXTENDS Integers, Sequences, FiniteSets, TLC

\* ------------------------------------------------------------- bounds
MaxLen == 5        \* longest affinity string drawn
NumCores == 3      \* cores 0 .. NumCores-1 have a governor pseudo-file
NumNodes == 2      \* cluster nodes listed by the API

Alphabet == {"0", "2", ",", "-", "x"}
Digits == {"0", "1", "2", "3", "4", "5", "6", "7", "8", "9"}
Cores == 0 .. (NumCores - 1)
Nodes == 1 .. NumNodes
VMs == {100, 101}
\* The affinity strings drawn: every string over Alphabet of up to MaxLen
\* characters.
Strings == UNION {[1 .. n -> Alphabet] : n \in 0 .. MaxLen}

\* The affinity strings of the multi-VM scenarios: "0", "0,1" (as "0-2"),
\* "1-3" (cores 1, 2) and "2".
AffChoices == {<<"0">>, <<"0", "-", "2">>, <<"1", "-", "3">>, <<"2">>}

\* ------------------------------------------------------ program types
GovState ==
    {"performance", "powersave", "userspace", "ondemand", "conservative", "schedutil"}

DefaultConfig == [started_state |-> "performance", stopped_state |-> "schedutil"]

Configs == {DefaultConfig, [started_state |-> "ondemand", stopped_state |-> "powersave"]}

Phases == {"pre-start", "post-start", "pre-stop", "post-stop"}

NodeStatus == {"online", "offline", "unknown"}
VmStatus == {"running", "stopped", "paused"}

VARIABLES
    config,     \* the loaded Config (started_state, stopped_state)
    apiUp,      \* the cluster API accepts the connection and the credentials
    nodes,      \* the API's node listing: Nodes -> [status, vms], vms the node's VM listing
    vmconfig,   \* VM id -> its configuration: [hasAffinity, affinity]
    vmstatus,   \* VM id -> its live status string
    present,    \* cores whose scaling_governor file exists and is writable
    gov,        \* core -> contents of its scaling_governor file
    hook,       \* VM id -> the hook process handling that VM's lifecycle event
    life,       \* VM id -> [running, cores]: lifecycle bookkeeping of the host
    ret         \* the last ProxmoxVMs query made directly and what it returned

vars == <<config, apiUp, nodes, vmconfig, vmstatus, present, gov, hook, life, ret>>

\* ------------------------------------------------------ str operations
\* str.isnumeric(): non-empty and every character numeric.
IsNumeric(t) == Len(t) > 0 /\ \A i \in 1 .. Len(t) : t[i] \in Digits

DigitVal(c) ==
    CASE c = "0" -> 0 [] c = "1" -> 1 [] c = "2" -> 2 [] c = "3" -> 3 [] c = "4" -> 4
      [] c = "5" -> 5 [] c = "6" -> 6 [] c = "7" -> 7 [] c = "8" -> 8 [] c = "9" -> 9

RECURSIVE DecVal(_)
DecVal(t) ==
    IF t = <<>> THEN 0
    ELSE 10 * DecVal(SubSeq(t, 1, Len(t) - 1)) + DigitVal(t[Len(t)])

\* int(str) succeeds on decimal digits with an optional sign (the only sign
\* of the alphabet is "-"); anything else raises ValueError.
IntValid(t) == IsNumeric(t) \/ (Len(t) > 1 /\ t[1] = "-" /\ IsNumeric(Tail(t)))

IntOf(t) == IF t[1] = "-" THEN 0 - DecVal(Tail(t)) ELSE DecVal(t)

FirstIdx(s, ch) ==
    IF \E i \in 1 .. Len(s) : s[i] = ch
    THEN CHOOSE i \in 1 .. Len(s) : s[i] = ch /\ \A j \in 1 .. (i - 1) : s[j] # ch
    ELSE 0

\* str.split(ch, 1)
SplitOnce(s, ch) ==
    LET i == FirstIdx(s, ch) IN
    IF i = 0 THEN <<s>> ELSE <<SubSeq(s, 1, i - 1), SubSeq(s, i + 1, Len(s))>>

\* str.split(ch)
RECURSIVE Split(_, _)
Split(s, ch) ==
    LET i == FirstIdx(s, ch) IN
    IF i = 0 THEN <<s>>
    ELSE <<SubSeq(s, 1, i - 1)>> \o Split(SubSeq(s, i + 1, Len(s)), ch)

\* ------------------------------------------------------ cluster locator
\* Variant of ScanFrom that does not skip offline nodes.
RECURSIVE ScanFrom_All(_, _, _)
ScanFrom_All(i, vm_id, requested) ==
    IF i > NumNodes THEN [found |-> FALSE, node |-> 0, requested |-> requested]
    ELSE IF \E k \in 1 .. Len(nodes[i].vms) : nodes[i].vms[k] = vm_id
         THEN [found |-> TRUE, node |-> i, requested |-> Append(requested, i)]
         ELSE ScanFrom_All(i + 1, vm_id, Append(requested, i))

\* get_locations consumed up to the first pair whose VM id is vm_id: offline
\* nodes are skipped, a node's VM listing is requested only when the scan
\* reaches that node.  requested is the nodes whose listing was requested.
RECURSIVE ScanFrom(_, _, _)
ScanFrom(i, vm_id, requested) ==
    IF i > NumNodes THEN [found |-> FALSE, node |-> 0, requested |-> requested]
    ELSE IF nodes[i].status = "offline" THEN ScanFrom(i + 1, vm_id, requested)
    ELSE IF \E k \in 1 .. Len(nodes[i].vms) : nodes[i].vms[k] = vm_id
         THEN [found |-> TRUE, node |-> i, requested |-> Append(requested, i)]
         ELSE ScanFrom(i + 1, vm_id, Append(requested, i))

\* get_locations consumed to its end: every (node, vm_id) pair in order.
RECURSIVE get_locations(_)
get_locations(i) ==
    IF i > NumNodes THEN <<>>
    ELSE IF nodes[i].status = "offline" THEN get_locations(i + 1)
    ELSE [k \in 1 .. Len(nodes[i].vms) |-> <<i, nodes[i].vms[k]>>] \o get_locations(i + 1)

\* get_node_by_vm_id: the node, or KeyError.
get_node_by_vm_id(vm_id) ==
    LET s == ScanFrom(1, vm_id, <<>>) IN
    [raised |-> IF s.found THEN "none" ELSE "KeyError", node |-> s.node,
     requested |-> s.requested]

\* __getitem__: the VM's configuration fetched from the node found, or KeyError.
__getitem__(vm_id) ==
    LET s == ScanFrom(1, vm_id, <<>>) IN
    [raised |-> IF s.found THEN "none" ELSE "KeyError", node |-> s.node,
     requested |-> s.requested, value |-> vmconfig[vm_id]]

\* Variant of is_stopped that takes every status but "running" for stopped.
is_stopped_not_running(vm_id) ==
    LET matches == SelectSeq(get_locations(1), LAMBDA x : x[2] = vm_id) IN
    IF matches = <<>> THEN [raised |-> "none", node |-> 0, value |-> TRUE]
    ELSE [raised |-> "none", node |-> matches[1][1],
          value |-> (vmstatus[vm_id] # "running")]

\* is_stopped
is_stopped(vm_id) ==
    LET matches == SelectSeq(get_locations(1), LAMBDA x : x[2] = vm_id) IN
    IF matches = <<>> THEN [raised |-> "none", node |-> 0, value |-> TRUE]
    ELSE [raised |-> "none", node |-> matches[1][1],
          value |-> (vmstatus[vm_id] = "stopped")]

\* ------------------------------------------------- affinities generator
NewGen == [status |-> "new", toks |-> <<>>, inRange |-> FALSE, core |-> 0, stop |-> 0]

DoneGen == [NewGen EXCEPT !.status = "done"]

\* Variant of Resume whose ranges include their upper bound.
RECURSIVE Resume_Inclusive(_)
Resume_Inclusive(g) ==
    IF g.inRange /\ g.core <= g.stop
    THEN [kind |-> "yield", val |-> g.core, gen |-> [g EXCEPT !.core = g.core + 1]]
    ELSE IF g.toks = <<>> THEN [kind |-> "stop", val |-> 0, gen |-> DoneGen]
    ELSE LET cores == Head(g.toks) IN
         IF IsNumeric(cores)
         THEN [kind |-> "yield", val |-> IntOf(cores),
               gen |-> [g EXCEPT !.toks = Tail(g.toks), !.inRange = FALSE]]
         ELSE LET parts == SplitOnce(cores, "-") IN
              IF Len(parts) # 2 \/ ~IntValid(parts[1]) \/ ~IntValid(parts[2])
              THEN [kind |-> "ValueError", val |-> 0, gen |-> DoneGen]
              ELSE Resume_Inclusive([status |-> "live", toks |-> Tail(g.toks),
                                     inRange |-> TRUE, core |-> IntOf(parts[1]),
                                     stop |-> IntOf(parts[2])])

\* Variant of Resume without the continue after a single core: resumed after
\* yielding it, the generator goes on to split the same token at "-".
RECURSIVE Resume_NoContinue(_)
Resume_NoContinue(g) ==
    IF g.inRange /\ g.core < g.stop
    THEN [kind |-> "yield", val |-> g.core, gen |-> [g EXCEPT !.core = g.core + 1]]
    ELSE IF g.toks = <<>> THEN [kind |-> "stop", val |-> 0, gen |-> DoneGen]
    ELSE LET cores == Head(g.toks) IN
         IF IsNumeric(cores) /\ g.status # "yielded"
         THEN [kind |-> "yield", val |-> IntOf(cores),
               gen |-> [g EXCEPT !.status = "yielded", !.inRange = FALSE]]
         ELSE LET parts == SplitOnce(cores, "-") IN
              IF Len(parts) # 2 \/ ~IntValid(parts[1]) \/ ~IntValid(parts[2])
              THEN [kind |-> "ValueError", val |-> 0, gen |-> DoneGen]
              ELSE Resume_NoContinue([status |-> "live", toks |-> Tail(g.toks),
                                      inRange |-> TRUE, core |-> IntOf(parts[1]),
                                      stop |-> IntOf(parts[2])])

\* The generator resumed inside its token loop: runs to the next yield, to the
\* end of the tokens, or to the ValueError of a token it cannot convert.
RECURSIVE Resume(_)
Resume(g) ==
    IF g.inRange /\ g.core < g.stop
    THEN [kind |-> "yield", val |-> g.core, gen |-> [g EXCEPT !.core = g.core + 1]]
    ELSE IF g.toks = <<>> THEN [kind |-> "stop", val |-> 0, gen |-> DoneGen]
    ELSE LET cores == Head(g.toks) IN
         IF IsNumeric(cores)
         THEN [kind |-> "yield", val |-> IntOf(cores),
               gen |-> [g EXCEPT !.toks = Tail(g.toks), !.inRange = FALSE]]
         ELSE LET parts == SplitOnce(cores, "-") IN
              IF Len(parts) # 2 \/ ~IntValid(parts[1]) \/ ~IntValid(parts[2])
              THEN [kind |-> "ValueError", val |-> 0, gen |-> DoneGen]
              ELSE Resume([status |-> "live", toks |-> Tail(g.toks), inRange |-> TRUE,
                           core |-> IntOf(parts[1]), stop |-> IntOf(parts[2])])

\* Variant of affinities that takes a VM it cannot find for one without affinity.
affinities_missing(g, vm_id) ==
    IF g.status = "new"
    THEN LET item == __getitem__(vm_id) IN
         IF item.raised # "none" \/ ~item.value.hasAffinity \/ item.value.affinity = <<>>
         THEN [kind |-> "stop", val |-> 0, gen |-> DoneGen]
         ELSE Resume([status |-> "live", toks |-> Split(item.value.affinity, ","),
                      inRange |-> FALSE, core |-> 0, stop |-> 0])
    ELSE Resume(g)

\* next() on the generator affinities(vm_id).  The first next() runs the body
\* from its top: the configuration lookup, the test of the affinity, the split.
affinities(g, vm_id) ==
    IF g.status = "new"
    THEN LET item == __getitem__(vm_id) IN
         IF item.raised # "none"
         THEN [kind |-> "KeyError", val |-> 0, gen |-> DoneGen]
         ELSE IF ~item.value.hasAffinity \/ item.value.affinity = <<>>
         THEN [kind |-> "stop", val |-> 0, gen |-> DoneGen]
         ELSE Resume([status |-> "live", toks |-> Split(item.value.affinity, ","),
                      inRange |-> FALSE, core |-> 0, stop |-> 0])
    ELSE Resume(g)

\* ------------------------------------------------------------ governor I/O
\* set_cpu_governor_state: write_text on the core's pseudo-file; a missing or
\* unwritable file raises OSError and leaves every file as it was.
set_cpu_governor_state(g, cpu_num, state) ==
    IF cpu_num \in present
    THEN [raised |-> "none", gov |-> [g EXCEPT ![cpu_num] = state]]
    ELSE [raised |-> "OSError", gov |-> g]

\* get_cpu_governor_state
get_cpu_governor_state(cpu_num) == gov[cpu_num]

\* ---------------------------------------------------------- hook process
IdleHook ==
    [pc |-> "idle", argv |-> <<>>, phase |-> "", state |-> "", gen |-> NewGen, writes |-> <<>>,
     yielded |-> <<>>, outcome |-> "none", gov0 |-> [c \in Cores |-> ""],
     cfg0 |-> [hasAffinity |-> FALSE, affinity |-> <<>>], found |-> FALSE]

NoRet == [op |-> "none", vm_id |-> 0, raised |-> "none", node |-> 0, requested |-> <<>>,
          value |-> FALSE]

\* ProxmoxVMs.__init__: ProxmoxAPI() logs in to the cluster as it is built, and
\* raises when the host cannot be reached or rejects the credentials.
Connect == IF apiUp THEN "none" ELSE "ApiError"

\* on_start writes config.started_state, on_stop writes config.stopped_state.
OnStartState_Swapped == config.stopped_state

OnStartState == config.started_state

OnStopState == config.stopped_state

\* The host launches the hook script for a lifecycle event of VM v.
Launch(v, args) ==
    /\ hook[v].pc = "idle"
    /\ hook' = [hook EXCEPT ![v] = [IdleHook EXCEPT !.pc = "main", !.argv = args,
                                                    !.gov0 = gov]]
    /\ life' = IF Len(args) < 2 THEN life
               ELSE IF args[2] = "post-stop" THEN [life EXCEPT ![v].running = FALSE]
               ELSE IF args[2] = "pre-start" THEN [life EXCEPT ![v].cores = {}]
               ELSE life
    /\ UNCHANGED <<config, apiUp, nodes, vmconfig, vmstatus, present, gov, ret>>

\* main() with fewer than two arguments: the usage message, exit status 1.
main_usage(v) ==
    /\ hook[v].pc = "main"
    /\ Len(hook[v].argv) < 2
    /\ hook' = [hook EXCEPT ![v] = [@ EXCEPT !.pc = "exit", !.outcome = "Usage"]]
    /\ UNCHANGED <<config, apiUp, nodes, vmconfig, vmstatus, present, gov, life, ret>>

\* main(): the arguments, Config.load, ProxmoxVMs(), then the phase test.
\* on_start and on_stop begin by creating the affinities generator.
main(v) ==
    /\ hook[v].pc = "main"
    /\ Len(hook[v].argv) >= 2
    /\ LET phase == hook[v].argv[2]
           h == [hook[v] EXCEPT !.phase = phase]
       IN
       hook' = [hook EXCEPT ![v] =
           IF Connect # "none" THEN [h EXCEPT !.pc = "exit", !.outcome = Connect]
           ELSE IF phase = "pre-start"
           THEN [h EXCEPT !.pc = "loop", !.state = OnStartState, !.gen = NewGen]
           ELSE IF phase = "post-stop"
           THEN [h EXCEPT !.pc = "loop", !.state = OnStopState, !.gen = NewGen]
           ELSE [h EXCEPT !.pc = "exit", !.outcome = "ok"]]
    /\ UNCHANGED <<config, apiUp, nodes, vmconfig, vmstatus, present, gov, life, ret>>

\* What the first next() read, recorded with the process.
Seen(h, v) ==
    IF h.gen.status = "new"
    THEN [h EXCEPT !.cfg0 = vmconfig[v], !.found = (__getitem__(v).raised = "none")]
    ELSE h

\* One turn of the for loop of on_start / on_stop that ends the loop with the
\* generator's exception: KeyError from the lookup.
IterNotFound(v) ==
    /\ hook[v].pc = "loop"
    /\ LET r == affinities(hook[v].gen, v) IN
       /\ r.kind = "KeyError"
       /\ hook' = [hook EXCEPT ![v] = [Seen(@, v) EXCEPT !.pc = "exit", !.gen = r.gen,
                                                          !.outcome = "KeyError"]]
    /\ UNCHANGED <<config, apiUp, nodes, vmconfig, vmstatus, present, gov, life, ret>>

\* ... or ValueError from a token.
IterBadToken(v) ==
    /\ hook[v].pc = "loop"
    /\ LET r == affinities(hook[v].gen, v) IN
       /\ r.kind = "ValueError"
       /\ hook' = [hook EXCEPT ![v] = [Seen(@, v) EXCEPT !.pc = "exit", !.gen = r.gen,
                                                          !.outcome = "ValueError"]]
    /\ UNCHANGED <<config, apiUp, nodes, vmconfig, vmstatus, present, gov, life, ret>>

\* The generator is exhausted: the handler and main() return.
IterDone(v) ==
    /\ hook[v].pc = "loop"
    /\ LET r == affinities(hook[v].gen, v) IN
       /\ r.kind = "stop"
       /\ hook' = [hook EXCEPT ![v] = [Seen(@, v) EXCEPT !.pc = "exit", !.gen = r.gen,
                                                          !.outcome = "ok"]]
       /\ life' = IF hook[v].phase = "pre-start"
                  THEN [life EXCEPT ![v] =
                          [running |-> TRUE,
                           cores |-> {hook[v].writes[i].core : i \in 1 .. Len(hook[v].writes)}]]
                  ELSE life
    /\ UNCHANGED <<config, apiUp, nodes, vmconfig, vmstatus, present, gov, ret>>

\* The generator yields a core and the loop body writes its governor.
IterWrite(v) ==
    /\ hook[v].pc = "loop"
    /\ LET r == affinities(hook[v].gen, v)
           w == set_cpu_governor_state(gov, r.val, hook[v].state)
       IN
       /\ r.kind = "yield"
       /\ w.raised = "none"
       /\ gov' = w.gov
       /\ hook' = [hook EXCEPT ![v] =
              [Seen(@, v) EXCEPT !.gen = r.gen,
                                 !.yielded = Append(@, r.val),
                                 !.writes = Append(@, [core |-> r.val, state |-> hook[v].state,
                                                       ok |-> TRUE])]]
    /\ UNCHANGED <<config, apiUp, nodes, vmconfig, vmstatus, present, life, ret>>

\* Variant of IterWriteFail that swallows the exception and goes on looping.
IterWriteFail_Swallow(v) ==
    /\ hook[v].pc = "loop"
    /\ LET r == affinities(hook[v].gen, v)
           w == set_cpu_governor_state(gov, r.val, hook[v].state)
       IN
       /\ r.kind = "yield"
       /\ w.raised # "none"
       /\ gov' = w.gov
       /\ hook' = [hook EXCEPT ![v] =
              [Seen(@, v) EXCEPT !.gen = r.gen,
                                 !.yielded = Append(@, r.val),
                                 !.writes = Append(@, [core |-> r.val, state |-> hook[v].state,
                                                       ok |-> FALSE])]]
    /\ UNCHANGED <<config, apiUp, nodes, vmconfig, vmstatus, present, life, ret>>

\* The generator yields a core and the write raises: the exception leaves the
\* loop, the handler and main().
IterWriteFail(v) ==
    /\ hook[v].pc = "loop"
    /\ LET r == affinities(hook[v].gen, v)
           w == set_cpu_governor_state(gov, r.val, hook[v].state)
       IN
       /\ r.kind = "yield"
       /\ w.raised # "none"
       /\ gov' = w.gov
       /\ hook' = [hook EXCEPT ![v] =
              [Seen(@, v) EXCEPT !.pc = "exit", !.outcome = w.raised, !.gen = r.gen,
                                 !.yielded = Append(@, r.val),
                                 !.writes = Append(@, [core |-> r.val, state |-> hook[v].state,
                                                       ok |-> FALSE])]]
    /\ UNCHANGED <<config, apiUp, nodes, vmconfig, vmstatus, present, life, ret>>

\* The hook process ends (main() returned or its exception reached the top).
Exit(v) ==
    /\ hook[v].pc = "exit"
    /\ hook' = [hook EXCEPT ![v] = IdleHook]
    /\ UNCHANGED <<config, apiUp, nodes, vmconfig, vmstatus, present, gov, life, ret>>

\* The host starts VM v: the pre-start event.
StartEvent(v) == ~life[v].running /\ Launch(v, <<v, "pre-start">>)

\* The host has stopped VM v: the post-stop event.
StopEvent(v) == life[v].running /\ Launch(v, <<v, "post-stop">>)

\* The cluster control plane changes the affinity of VM v.
Reconfigure(v, s) ==
    /\ vmconfig[v].affinity # s
    /\ vmconfig' = [vmconfig EXCEPT ![v].affinity = s]
    /\ UNCHANGED <<config, apiUp, nodes, vmstatus, present, gov, hook, life, ret>>

\* ... while no hook process of the VM is running.
ReconfigureIdle(v, s) == hook[v].pc = "idle" /\ Reconfigure(v, s)

\* Direct calls of the locator's queries.
CallIsStopped(v) ==
    /\ ret' = [NoRet EXCEPT !.op = "is_stopped", !.vm_id = v,
                            !.raised = is_stopped(v).raised, !.node = is_stopped(v).node,
                            !.value = is_stopped(v).value]
    /\ UNCHANGED <<config, apiUp, nodes, vmconfig, vmstatus, present, gov, hook, life>>

CallGetNodeByVmId(v) ==
    /\ ret' = [NoRet EXCEPT !.op = "get_node_by_vm_id", !.vm_id = v,
                            !.raised = get_node_by_vm_id(v).raised,
                            !.node = get_node_by_vm_id(v).node,
                            !.requested = get_node_by_vm_id(v).requested]
    /\ UNCHANGED <<config, apiUp, nodes, vmconfig, vmstatus, present, gov, hook, life>>

CallGetItem(v) ==
    /\ ret' = [NoRet EXCEPT !.op = "getitem", !.vm_id = v,
                            !.raised = __getitem__(v).raised, !.node = __getitem__(v).node,
                            !.requested = __getitem__(v).requested]
    /\ UNCHANGED <<config, apiUp, nodes, vmconfig, vmstatus, present, gov, hook, life>>

\* ------------------------------------------------------------ clusters
\* Every VM hosted by node 1, every node online.
HomeCluster ==
    [i \in Nodes |-> [status |-> "online",
                      vms |-> IF i = 1 THEN <<100, 101>> ELSE <<>>]]

BootGov == [c \in Cores |-> "ondemand"]

NoLife == [v \in VMs |-> [running |-> FALSE, cores |-> {}]]

\* ------------------------------------------------- single invocation
\* The hook process of VM v as the host launches it.
Launched(args, g) == [IdleHook EXCEPT !.pc = "main", !.argv = args, !.gov0 = g]

\* The sets of writable cores: all of them, or all but one.
PresentChoices == {Cores} \cup {Cores \ {c} : c \in Cores}

\* One hook invocation for VM 100: either any affinity string on a healthy
\* cluster, for the two phases that have a handler, or one of a few
\* affinities with any arguments on a few clusters, the API up or down.
Init ==
    /\ config \in Configs
    /\ vmstatus = [v \in VMs |-> "stopped"]
    /\ gov = BootGov
    /\ life = NoLife
    /\ ret = NoRet
    /\ \/ /\ apiUp = TRUE
          /\ nodes = HomeCluster
          /\ present \in PresentChoices
          /\ \E s \in Strings :
                vmconfig = [v \in VMs |-> [hasAffinity |-> TRUE, affinity |-> s]]
          /\ \E phase \in {"pre-start", "post-stop"} :
                hook = [v \in VMs |-> IF v = 100 THEN Launched(<<100, phase>>, gov)
                                      ELSE IdleHook]
       \/ /\ apiUp \in BOOLEAN
          /\ \E st \in NodeStatus, l \in {<<>>, <<100>>, <<101, 100>>} :
                nodes = [i \in Nodes |-> [status |-> IF i = 1 THEN st ELSE "online",
                                          vms |-> IF i = 1 THEN l ELSE <<>>]]
          /\ present = Cores
          /\ \E s \in AffChoices, b \in BOOLEAN :
                vmconfig = [v \in VMs |-> [hasAffinity |-> b, affinity |-> s]]
          /\ \E args \in {<<>>, <<100>>} \cup {<<100, phase>> : phase \in Phases} :
                hook = [v \in VMs |-> IF v = 100 THEN Launched(args, gov) ELSE IdleHook]

Next ==
    \/ main_usage(100)
    \/ main(100)
    \/ IterNotFound(100)
    \/ IterBadToken(100)
    \/ IterDone(100)
    \/ IterWrite(100)
    \/ IterWriteFail(100)

Spec == Init /\ [][Next]_vars

\* ------------------------------------------------------ locator queries
Listings == {<<>>, <<100>>, <<101>>, <<100, 101>>, <<101, 100>>}

\* Any cluster: the locator's queries are made on it.
InitLocator ==
    /\ config = DefaultConfig
    /\ apiUp = TRUE
    /\ nodes \in [Nodes -> [status : NodeStatus, vms : Listings]]
    /\ vmconfig = [v \in VMs |-> [hasAffinity |-> FALSE, affinity |-> <<>>]]
    /\ vmstatus \in [VMs -> VmStatus]
    /\ present = Cores
    /\ gov = BootGov
    /\ hook = [v \in VMs |-> IdleHook]
    /\ life = NoLife
    /\ ret = NoRet

NextLocator ==
    \/ \E v \in VMs : CallIsStopped(v)
    \/ \E v \in VMs : CallGetNodeByVmId(v)
    \/ \E v \in VMs : CallGetItem(v)

SpecLocator == InitLocator /\ [][NextLocator]_vars

\* ------------------------------------------------------ several VMs
\* A healthy host: every VM located, every core writable, affinities fixed.
InitHost ==
    /\ config \in Configs
    /\ apiUp = TRUE
    /\ nodes = HomeCluster
    /\ vmconfig \in [VMs -> {[hasAffinity |-> TRUE, affinity |-> s] : s \in AffChoices}]
    /\ vmstatus = [v \in VMs |-> "stopped"]
    /\ present = Cores
    /\ gov = BootGov
    /\ hook = [v \in VMs |-> IdleHook]
    /\ life = NoLife
    /\ ret = NoRet

NextHost ==
    \/ \E v \in VMs : StartEvent(v)
    \/ \E v \in VMs : StopEvent(v)
    \/ \E v \in VMs : main(v)
    \/ \E v \in VMs : IterWrite(v)
    \/ \E v \in VMs : IterDone(v)
    \/ \E v \in VMs : Exit(v)

SpecHost == InitHost /\ [][NextHost]_vars

\* ------------------------------------------- one VM, affinity changing
InitReconfig ==
    /\ InitHost
    /\ vmconfig[100] = vmconfig[101]

NextReconfig ==
    \/ StartEvent(100)
    \/ StopEvent(100)
    \/ main(100)
    \/ IterWrite(100)
    \/ IterDone(100)
    \/ Exit(100)
    \/ \E s \in AffChoices : ReconfigureIdle(100, s)

SpecReconfig == InitReconfig /\ [][NextReconfig]_vars

\* ------------------------------------------------ reference definitions
IsPrefix(a, b) == Len(a) <= Len(b) /\ \A i \in 1 .. Len(a) : a[i] = b[i]

\* The integers c, c+1, ..., d-1.
HalfOpen(c, d) == IF d <= c THEN <<>> ELSE [i \in 1 .. (d - c) |-> c + i - 1]

\* A token the parser converts: a number, or two integers around the first "-".
TokenParses(t) ==
    \/ IsNumeric(t)
    \/ \E i \in 1 .. Len(t) :
          /\ t[i] = "-"
          /\ \A j \in 1 .. (i - 1) : t[j] # "-"
          /\ IntValid(SubSeq(t, 1, i - 1))
          /\ IntValid(SubSeq(t, i + 1, Len(t)))

\* A token of the documented syntax: n, or c-d with c and d numbers.
TokenWellFormed(t) ==
    \/ IsNumeric(t)
    \/ \E i \in 1 .. Len(t) :
          t[i] = "-" /\ IsNumeric(SubSeq(t, 1, i - 1)) /\ IsNumeric(SubSeq(t, i + 1, Len(t)))

\* What a token that parses contributes.
TokenCores(t) ==
    IF IsNumeric(t) THEN <<DecVal(t)>>
    ELSE LET i == CHOOSE i \in 1 .. Len(t) : t[i] = "-" /\ \A j \in 1 .. (i - 1) : t[j] # "-"
         IN HalfOpen(IntOf(SubSeq(t, 1, i - 1)), IntOf(SubSeq(t, i + 1, Len(t))))

\* The contributions of the tokens before the first one that does not parse
\* (of all tokens, when all parse), left to right.
RECURSIVE FlattenTokens(_)
FlattenTokens(toks) ==
    IF toks = <<>> \/ ~TokenParses(Head(toks)) THEN <<>>
    ELSE TokenCores(Head(toks)) \o FlattenTokens(Tail(toks))

NoAffinity(cfg) == ~cfg.hasAffinity \/ cfg.affinity = <<>>

Tokens(cfg) == Split(cfg.affinity, ",")

Parses(cfg) ==
    NoAffinity(cfg) \/ \A i \in 1 .. Len(Tokens(cfg)) : TokenParses(Tokens(cfg)[i])

WellFormed(cfg) ==
    NoAffinity(cfg) \/ \A i \in 1 .. Len(Tokens(cfg)) : TokenWellFormed(Tokens(cfg)[i])

\* The reference flattening of a VM configuration's affinity.
Flatten(cfg) == IF NoAffinity(cfg) THEN <<>> ELSE FlattenTokens(Tokens(cfg))

WriteCores(h) == [i \in 1 .. Len(h.writes) |-> h.writes[i].core]

\* The process is in, or has left, on_start or on_stop and has looked its VM up.
InHandler(h) == h.pc \in {"loop", "exit"} /\ h.phase \in {"pre-start", "post-stop"}
                /\ h.outcome # "ApiError" /\ h.gen.status # "new"

ConfigState(h) ==
    IF h.phase = "pre-start" THEN config.started_state ELSE config.stopped_state

\* ----------------------------------------------------------------- C1
\* C1: for a located VM whose affinity parses, the governor writes of on_start
\* (on_stop) are, in order, the parsed core sequence, each carrying
\* config.started_state (config.stopped_state): at every moment the writes
\* issued are a prefix of it, and a handler that returns has issued all of it.
C1_WritesFollowAffinity ==
    \A v \in VMs :
        LET h == hook[v]
            parsed == Flatten(h.cfg0)
        IN
        (InHandler(h) /\ h.found /\ Parses(h.cfg0)) =>
            /\ IsPrefix(WriteCores(h), parsed)
            /\ \A i \in 1 .. Len(h.writes) : h.writes[i].state = ConfigState(h)
            /\ (h.pc = "exit" /\ h.outcome = "ok") => WriteCores(h) = parsed
            /\ (h.pc = "exit" /\ \A i \in 1 .. Len(parsed) : parsed[i] \in present)
                  => h.outcome = "ok"

\* on_start has returned after writing cores 0, 0, 1 for the affinity "0,0-2".
C1_Witness ==
    /\ hook[100].pc = "exit" /\ hook[100].outcome = "ok" /\ hook[100].phase = "pre-start"
    /\ hook[100].cfg0.affinity = <<"0", ",", "0", "-", "2">>
    /\ WriteCores(hook[100]) = <<0, 0, 1>>
    /\ config.started_state # config.stopped_state

\* ----------------------------------------------------------------- C4
\* C4: for a located VM, the cores affinities(vm_id) yields are the reference
\* flattening: nothing for an absent or empty affinity, otherwise n for a
\* token n and c .. d-1 for a token c-d, in token order, duplicates kept; no
\* token of this syntax raises.
C4_AffinitiesFlatten ==
    \A v \in VMs :
        LET h == hook[v] IN
        (InHandler(h) /\ h.found /\ WellFormed(h.cfg0)) =>
            /\ IsPrefix(h.yielded, Flatten(h.cfg0))
            /\ h.outcome # "ValueError"
            /\ (h.gen.status = "done" /\ h.outcome = "ok") => h.yielded = Flatten(h.cfg0)
            /\ NoAffinity(h.cfg0) => (h.yielded = <<>> /\ h.outcome = "ok")

\* The generator is exhausted having yielded 0 for "2-0,0": the range 2-0 gave
\* nothing.
C4_Witness ==
    /\ hook[100].gen.status = "done" /\ hook[100].outcome = "ok"
    /\ hook[100].cfg0.affinity = <<"2", "-", "0", ",", "0">>
    /\ hook[100].yielded = <<0>>

\* ----------------------------------------------------------------- C6
ListedNowhere(v) ==
    ~\E i \in Nodes :
        nodes[i].status # "offline" /\ \E k \in 1 .. Len(nodes[i].vms) : nodes[i].vms[k] = v

\* C6: when no node that is not offline lists the VM, on_start and on_stop end
\* in KeyError and no governor file has been written.
C6_NotFoundNoWrite ==
    \A v \in VMs :
        LET h == hook[v] IN
        (InHandler(h) /\ ListedNowhere(v)) =>
            /\ h.pc = "exit" /\ h.outcome = "KeyError"
            /\ h.writes = <<>>
            /\ gov = h.gov0

\* on_start ended in KeyError for a VM that only an offline node lists.
C6_Witness ==
    /\ hook[100].pc = "exit" /\ hook[100].outcome = "KeyError"
    /\ hook[100].phase = "pre-start"
    /\ nodes[1].status = "offline" /\ nodes[1].vms = <<100>>
    /\ gov = hook[100].gov0

\* ----------------------------------------------------------------- C7
Failed(h) == \E i \in 1 .. Len(h.writes) : ~h.writes[i].ok

Earlier(h) == {h.writes[i].core : i \in 1 .. (Len(h.writes) - 1)}

\* The cores of the writes that were not attempted.
Remaining(h) ==
    LET parsed == Flatten(h.cfg0) IN
    {parsed[i] : i \in (Len(h.writes) + 1) .. Len(parsed)}

\* What both the claim and its amendment say of a failed k-th write: it ends
\* the invocation with that failure, it is the last write in the log (none
\* after it, no second attempt), the log is the first k elements of the core
\* sequence, and the cores of writes 1..k-1 hold the new state.
C7_StopsAtFailure(h) ==
    LET k == Len(h.writes) IN
    /\ h.pc = "exit" /\ h.outcome = "OSError"
    /\ ~h.writes[k].ok /\ \A i \in 1 .. (k - 1) : h.writes[i].ok
    /\ IsPrefix(WriteCores(h), Flatten(h.cfg0))
    /\ \A c \in Earlier(h) : gov[c] = h.state

\* C7 as stated: ... and every core of a remaining write holds the state it
\* had before the invocation.
C7_Original ==
    \A v \in VMs :
        LET h == hook[v] IN
        Failed(h) =>
            /\ C7_StopsAtFailure(h)
            /\ \A c \in Remaining(h) \cap Cores : gov[c] = h.gov0[c]

\* C7 amended: ... and every core of a remaining write that is not also the
\* core of one of the writes 1..k-1 holds the state it had before.
C7_PartialApplication ==
    \A v \in VMs :
        LET h == hook[v] IN
        Failed(h) =>
            /\ C7_StopsAtFailure(h)
            /\ \A c \in (Remaining(h) \cap Cores) \ Earlier(h) : gov[c] = h.gov0[c]

\* The second write failed with a write still to come, on a core that held
\* another state than the one being written.
C7_Witness ==
    /\ Failed(hook[100]) /\ Len(hook[100].writes) = 2
    /\ \E c \in (Remaining(hook[100]) \cap Cores) \ Earlier(hook[100]) :
          gov[c] # hook[100].state

\* ----------------------------------------------------------------- C8
\* C8: an invocation with a VM id and any other phase token writes no
\* governor file and ends without error.
C8_OtherPhaseIgnored ==
    \A v \in VMs :
        LET h == hook[v] IN
        (h.pc = "exit" /\ Len(h.argv) >= 2 /\ h.argv[2] \notin {"pre-start", "post-stop"}) =>
            /\ h.outcome = "ok"
            /\ h.writes = <<>>
            /\ gov = h.gov0

\* ---------------------------------------------------------------- C10
\* The observation of a caller that first materializes affinities(vm_id) of a
\* located VM and then writes the cores one by one.
RECURSIVE EagerWrites(_, _, _, _)
EagerWrites(cores, state, g, log) ==
    IF cores = <<>> THEN [writes |-> log, gov |-> g, outcome |-> "ok"]
    ELSE IF Head(cores) \in present
    THEN EagerWrites(Tail(cores), state, [g EXCEPT ![Head(cores)] = state],
                     Append(log, [core |-> Head(cores), state |-> state, ok |-> TRUE]))
    ELSE [writes |-> Append(log, [core |-> Head(cores), state |-> state, ok |-> FALSE]),
          gov |-> g, outcome |-> "OSError"]

Eager(h) ==
    IF ~Parses(h.cfg0) THEN [writes |-> <<>>, gov |-> h.gov0, outcome |-> "ValueError"]
    ELSE EagerWrites(Flatten(h.cfg0), ConfigState(h), h.gov0, <<>>)

Lazy(h) == [writes |-> h.writes, gov |-> gov, outcome |-> h.outcome]

Ended(h) == InHandler(h) /\ h.found /\ h.pc = "exit"

\* C10 as stated: for every affinity string the lazily driven handler gives
\* the writes, the final governors and the outcome of the eager one.
C10_Original == \A v \in VMs : Ended(hook[v]) => Lazy(hook[v]) = Eager(hook[v])

\* C10 amended: the two agree for every affinity string that parses, and for
\* one that does not when no core is produced before its first unparsable
\* token; when a core is produced before it, the eager handler raises
\* ValueError having written nothing, and the lazy one has by then attempted
\* the write of the first core.
C10_LazyEager ==
    \A v \in VMs :
        LET h == hook[v] IN
        Ended(h) =>
            IF Parses(h.cfg0) \/ Flatten(h.cfg0) = <<>>
            THEN Lazy(h) = Eager(h)
            ELSE /\ Eager(h).writes = <<>> /\ Eager(h).outcome = "ValueError"
                 /\ Len(h.writes) >= 1 /\ h.outcome \in {"ValueError", "OSError"}

\* The handler has ended on a string that parses, after a write that failed
\* behind one that succeeded.
C10_Witness ==
    /\ Ended(hook[100]) /\ Parses(hook[100].cfg0)
    /\ hook[100].outcome = "OSError" /\ Len(hook[100].writes) = 2

\* ----------------------------------------------------------------- C2
AffinityCores(v) == {Flatten(vmconfig[v])[i] : i \in 1 .. Len(Flatten(vmconfig[v]))}

\* C2: every core in the affinity of a VM whose pre-start has completed and
\* whose post-stop has not yet run holds config.started_state.
C2_RunningCoresStarted ==
    \A v \in VMs :
        life[v].running => \A c \in AffinityCores(v) : gov[c] = config.started_state

\* ----------------------------------------------------------------- C3
\* C3: when post-stop has completed, every core the VM's preceding pre-start
\* set to started_state holds config.stopped_state.
C3_StopRestores ==
    \A v \in VMs :
        (hook[v].pc = "exit" /\ hook[v].phase = "post-stop" /\ hook[v].outcome = "ok") =>
            \A c \in life[v].cores : gov[c] = config.stopped_state

\* ----------------------------------------------------------------- C5
\* C5: is_stopped returns true when no node that is not offline lists the VM,
\* otherwise true exactly when the VM's live status is "stopped"; it never
\* raises for a missing VM.
C5_IsStopped ==
    ret.op = "is_stopped" =>
        /\ ret.raised = "none"
        /\ ListedNowhere(ret.vm_id) => ret.value = TRUE
        /\ ~ListedNowhere(ret.vm_id) => (ret.value = (vmstatus[ret.vm_id] = "stopped"))

\* is_stopped returned false for a paused VM that an online node lists.
C5_Witness ==
    /\ ret.op = "is_stopped" /\ ret.value = FALSE
    /\ vmstatus[ret.vm_id] = "paused" /\ ~ListedNowhere(ret.vm_id)

\* ----------------------------------------------------------------- C9
Hosts(v) ==
    {i \in Nodes : nodes[i].status # "offline"
                   /\ \E k \in 1 .. Len(nodes[i].vms) : nodes[i].vms[k] = v}

\* C9: get_node_by_vm_id and __getitem__ resolve the VM to the first listed
\* node that is not offline and lists it, request the VM listing of no
\* offline node, and raise KeyError when only offline nodes list it.
C9_FirstOnlineNode ==
    ret.op \in {"get_node_by_vm_id", "getitem"} =>
        /\ \A k \in 1 .. Len(ret.requested) : nodes[ret.requested[k]].status # "offline"
        /\ IF Hosts(ret.vm_id) = {} THEN ret.raised = "KeyError"
           ELSE /\ ret.raised = "none"
                /\ ret.node \in Hosts(ret.vm_id)
                /\ \A i \in Hosts(ret.vm_id) : ret.node <= i

\* __getitem__ resolved the VM to node 2 though node 1, offline, lists it too.
C9_Witness ==
    /\ ret.op = "getitem" /\ ret.raised = "none" /\ ret.node = 2
    /\ nodes[1].status = "offline"
    /\ \E k \in 1 .. Len(nodes[1].vms) : nodes[1].vms[k] = ret.vm_id

====
